---- MODULE Spec2Model ----
(***************************************************************************)
(* Model of the OCI Prometheus exporter (src/main.go): the collection      *)
(* goroutine started by main(), collectMetrics and summarizeWithRetry,     *)
(* against a monitoring provider whose answers are nondeterministic, and   *)
(* the /metrics handler that serves scrapes while the goroutine runs.      *)
(*                                                                         *)
(* Strings that the code inspects (error texts, query texts) are modelled  *)
(* as sequences of tokens; durations are in milliseconds; a Go pointer is  *)
(* a sequence of length 0 (nil) or 1.  Datapoint values are the provider's *)
(* mandatory field and are modelled as always present.                     *)
(***************************************************************************)
EXTENDS Integers, Sequences, FiniteSets, TLC

VARIABLES
    cfg,          \* tenants, metricsCfg returned by loadConfigs (never mutated)
    pool,         \* the series the provider holds and may return (never mutated)
    now,          \* now of collectMetrics: the wall clock read for the current tenant
    pc,           \* position of the collection goroutine
    ti,           \* index of the tenant loop of collectMetrics
    ni,           \* index of the namespace loop of collectMetrics
    ii,           \* index of the loop over resp.Items
    clientRegion, \* region of the shared monitoring client
    req,          \* request built for the current (tenant, namespace) pair
    attempt,      \* loop variable of summarizeWithRetry
    resp,         \* resp of summarizeWithRetry
    err,          \* err of summarizeWithRetry
    child,        \* the Gauge returned by gauge.With(labels): its label set
    gauge,        \* the GaugeVec: label set -> value
    lastLog,      \* the line most recently written by log.Printf
    trace,        \* history: the calls and backoff sleeps of the current invocation
    queried,      \* history: (tenant, namespace) pairs called in the current sweep
    failed,       \* history: pairs of the current sweep whose call ended in an error
    called,       \* history: some provider call has been made
    sinceCall,    \* history: ms slept since the last provider call (capped)
    sweeps,       \* history: completed sweeps (capped)
    elapsed,      \* history: ms slept since the current tenant's iteration began (capped)
    windows,      \* history: (start, end) of the requests sent for the current tenant
    written,      \* history: label set -> value of its last completed sample write
    sc,           \* position of the /metrics handler
    scraped       \* what the last served scrape observed, and where the goroutine was

vars == << cfg, pool, now, pc, ti, ni, ii, clientRegion, req, attempt, resp, err, child,
           gauge, lastLog, trace, queried, failed, called, sinceCall, sweeps, elapsed,
           windows, written, sc, scraped >>

----------------------------------------------------------------------------
(* Bounds of the model *)

\* longest resp.Items the provider returns
MaxItems == 2

\* sinceCall stops counting at this many ms
SleepCap == 200

\* sweeps stops counting at this many completed sweeps
SweepCap == 1

----------------------------------------------------------------------------
(* Program constants *)

\* for attempt := 0; attempt < 3; attempt++
MaxAttempts == 3

\* time.Second, in ms
Second == 1000

\* time.Sleep(100 * time.Millisecond)
PaceMs == 100

\* time.Sleep(1 * time.Minute)
SweepSleepMs == 60000

\* now.Add(-1 * time.Minute): the lookback of the time window, in ms
LookbackMs == 60000

\* the sampling interval "[1m]" of every query term, in ms
SamplingIntervalMs == 60000

----------------------------------------------------------------------------
(* Values *)

Min(a, b) == IF a < b THEN a ELSE b

RECURSIVE Shl(_, _)
\* x << n
Shl(x, n) == IF n = 0 THEN x ELSE 2 * Shl(x, n - 1)

\* the nil error
NilErr == [isNil |-> TRUE, text |-> << >>]

\* an error whose Error() is the token sequence t
MkErr(t) == [isNil |-> FALSE, text |-> t]

\* strings.Contains on token sequences: sub occurs contiguously in s
Contains(s, sub) ==
    \E i \in 0..(Len(s) - Len(sub)) :
        \A j \in 1..Len(sub) : s[i + j] = sub[j]

\* the zero SummarizeMetricsDataResponse
ZeroResp == [Items |-> << >>]

Tenancies ==
    << [Name |-> "t1", TenancyID |-> "ocid1.tenancy.1",
        CompartmentID |-> "ocid1.compartment.1", Region |-> "us-ashburn-1"],
       [Name |-> "t2", TenancyID |-> "ocid1.tenancy.2",
        CompartmentID |-> "ocid1.compartment.2", Region |-> "eu-frankfurt-1"] >>

NsCompute == [Namespace |-> "oci_computeagent", Names |-> << "A", "B" >>,
              ResourceGroup |-> "", Resolution |-> ""]
NsEmpty   == [Namespace |-> "oci_empty", Names |-> << >>,
              ResourceGroup |-> "", Resolution |-> ""]
NsBlock   == [Namespace |-> "oci_blockstorage", Names |-> << "C" >>,
              ResourceGroup |-> "rg", Resolution |-> "5m"]

NsDup     == [Namespace |-> "oci_vcn", Names |-> << "A", "B", "A" >>,
              ResourceGroup |-> "", Resolution |-> ""]

\* the configurations loadConfigs may return
CfgTwoTenants == [Tenancies |-> Tenancies, Metrics |-> << NsEmpty, NsCompute >>]
CfgOneTenant  == [Tenancies |-> << Tenancies[2] >>,
                  Metrics |-> << NsCompute, NsEmpty, NsBlock >>]
Configs == { CfgTwoTenants, CfgOneTenant }

\* a configuration of one pair, with a repeated metric name
CfgMapping == [Tenancies |-> << Tenancies[1] >>, Metrics |-> << NsDup, NsEmpty >>]

\* series the provider may return
SeriesA  == [Name |-> << "A" >>, Dimensions |-> [k \in {"resourceId"} |-> "r1"],
             AggregatedDatapoints |-> << 10, 20 >>]
SeriesB  == [Name |-> << "B" >>, Dimensions |-> [k \in {"resourceId"} |-> "r1"],
             AggregatedDatapoints |-> << >>]
SeriesA2 == [Name |-> << "A" >>, Dimensions |-> [k \in {"resourceId"} |-> "r1"],
             AggregatedDatapoints |-> << 30 >>]

SeriesPool == { SeriesA, SeriesB, SeriesA2 }

\* series that differ in name, dimensions and datapoints
SeriesFull    == [Name |-> << "A" >>,
                  Dimensions |-> [k \in {"resourceId", "host"} |->
                                     IF k = "resourceId" THEN "r1" ELSE "h1"],
                  AggregatedDatapoints |-> << 10, 40, 20 >>]
SeriesNoName  == [Name |-> << >>,
                  Dimensions |-> [k \in {"resourceId", "host", "az"} |->
                                     IF k = "resourceId" THEN ""
                                     ELSE IF k = "host" THEN "h1" ELSE "a1"],
                  AggregatedDatapoints |-> << 5 >>]
SeriesNoDims  == [Name |-> << "B" >>, Dimensions |-> << >>,
                  AggregatedDatapoints |-> << 7 >>]
SeriesBlank   == [Name |-> << "B" >>,
                  Dimensions |-> [k \in {"resourceId", "host"} |-> ""],
                  AggregatedDatapoints |-> << 8 >>]
SeriesNoData  == [Name |-> << "C" >>, Dimensions |-> [k \in {"resourceId"} |-> "r1"],
                  AggregatedDatapoints |-> << >>]
SeriesHostOnly == [Name |-> << >>, Dimensions |-> [k \in {"host"} |-> "h1"],
                   AggregatedDatapoints |-> << 5 >>]

MappingPool == { SeriesFull, SeriesNoName, SeriesNoDims, SeriesBlank, SeriesNoData,
                 SeriesHostOnly }

RECURSIVE SeqsUpTo(_, _)
SeqsUpTo(S, n) ==
    IF n = 0 THEN { << >> }
    ELSE LET shorter == SeqsUpTo(S, n - 1)
         IN  shorter \cup { Append(s, x) : s \in { t \in shorter : Len(t) = n - 1 }, x \in S }

\* the responses the provider may return with a nil error
Responses == { [Items |-> s] : s \in SeqsUpTo(pool, MaxItems) }

\* the instants time.Now() may return, in ms
Instants == { 600000, 660000 }

\* what the startup of main may end with: "ok" or the step that fails
StartupOutcomes ==
    { "ok", "missing -config", "OCI config", "monitoring client",
      "tenants.yaml", "metrics.yaml" }

ErrTooMany1 == MkErr(<< "Error", "returned", "by", "Monitoring", "Service.",
                        "Http", "Status", "Code:", "429.", "Error", "Code:",
                        "TooManyRequests", "request-1" >>)
ErrTooMany2 == MkErr(<< "Error", "returned", "by", "Monitoring", "Service.",
                        "Http", "Status", "Code:", "429.", "Error", "Code:",
                        "TooManyRequests", "request-2" >>)
ErrInternal == MkErr(<< "Error", "returned", "by", "Monitoring", "Service.",
                        "Http", "Status", "Code:", "500.", "Error", "Code:",
                        "InternalServerError" >>)

\* a throttling answer (HTTP 429) whose text does not hold "TooManyRequests"
ErrThrottled == MkErr(<< "Error", "returned", "by", "Monitoring", "Service.",
                         "Http", "Status", "Code:", "429.", "Error", "Code:",
                         "LimitExceeded" >>)

\* the errors the provider may return
ProviderErrors == { ErrTooMany1, ErrTooMany2, ErrInternal, ErrThrottled }

\* what one call of client.SummarizeMetricsData may return: (resp, err)
ProviderOutcomes ==
    { [resp |-> r, err |-> NilErr] : r \in Responses } \cup
    { [resp |-> ZeroResp, err |-> e] : e \in ProviderErrors }

----------------------------------------------------------------------------
(* summarizeWithRetry *)

\* mutants of ReturnsNow: the success test dropped; every error retried
ReturnsOnErrorOnly(e) == ~e.isNil /\ ~Contains(e.text, << "TooManyRequests" >>)
ReturnsOnSuccessOnly(e) == e.isNil

\* mutant of ReturnsNow: the status code 429 counts as a rate limit too
ReturnsUnlessStatus429(e) ==
    e.isNil \/ ~(Contains(e.text, << "TooManyRequests" >>) \/ Contains(e.text, << "429." >>))

\* err == nil || !strings.Contains(err.Error(), "TooManyRequests")
ReturnsNow(e) == e.isNil \/ ~Contains(e.text, << "TooManyRequests" >>)

\* mutant of Backoff: the shift is one too far
BackoffOffByOne(a) == Shl(1, a + 1) * Second

\* time.Duration(1<<attempt) * time.Second
Backoff(a) == Shl(1, a) * Second

\* mutant of LoopsAgain: attempt <= 3
LoopsOnceMore(a) == a <= MaxAttempts

\* the loop condition attempt < 3, after attempt++
LoopsAgain(a) == a < MaxAttempts

\* history events of one invocation
CallEvent(r, e) == [ev |-> "call", resp |-> r, err |-> e, ms |-> 0]
SleepEvent(ms) == [ev |-> "sleep", resp |-> ZeroResp, err |-> NilErr, ms |-> ms]

----------------------------------------------------------------------------
(* collectMetrics *)

RECURSIVE Join(_, _)
\* strings.Join(parts, sep)
Join(parts, sep) ==
    IF Len(parts) = 0 THEN << >>
    ELSE IF Len(parts) = 1 THEN parts[1]
    ELSE parts[1] \o << sep >> \o Join(Tail(parts), sep)

RECURSIVE Dedup(_)
Dedup(names) ==
    IF Len(names) = 0 THEN << >>
    ELSE LET n == Len(names)
             r == Dedup(SubSeq(names, 1, n - 1))
         IN  IF \E j \in 1..(n - 1) : names[j] = names[n] THEN r
             ELSE Append(r, names[n])

\* mutant of QueryText: a repeated name gets one term only
QueryTextDedup(names) ==
    Join([k \in 1..Len(Dedup(names)) |-> << Dedup(names)[k], "[1m].mean()" >>], ",")

\* fmt.Sprintf("%s[1m].mean()", m) for each name, then strings.Join(parts, ",")
QueryText(names) ==
    Join([k \in 1..Len(names) |-> << names[k], "[1m].mean()" >>], ",")

\* mutant of SkipsNamespace: the check is missing
SkipsNoNamespace(ns) == FALSE

\* mutant of SkipsNamespace: a namespace needs two names to be queried
SkipsSingleName(ns) == Len(ns.Names) <= 1

\* len(ns.Names) == 0 { continue }
SkipsNamespace(ns) == Len(ns.Names) = 0

\* start := now.Add(-1 * time.Minute)
WindowStart(n) == n - LookbackMs

\* mutant of WindowEnd: the clock is read again when the request is built
WindowEndAtBuild(n) == n + elapsed

\* end := now
WindowEnd(n) == n

\* the SummarizeMetricsDataRequest of the pair (t, ns); the optional fields are
\* nil pointers unless the namespace sets them
BuildRequest(t, ns) ==
    [CompartmentId          |-> t.CompartmentID,
     CompartmentIdInSubtree |-> TRUE,
     Namespace              |-> ns.Namespace,
     Query                  |-> QueryText(ns.Names),
     StartTime              |-> WindowStart(now),
     EndTime                |-> WindowEnd(now),
     ResourceGroup          |-> IF ns.ResourceGroup # "" THEN << ns.ResourceGroup >> ELSE << >>,
     Resolution             |-> IF ns.Resolution # "" THEN << ns.Resolution >> ELSE << >>]

NoReq == [CompartmentId |-> "", CompartmentIdInSubtree |-> FALSE, Namespace |-> "",
          Query |-> << >>, StartTime |-> 0, EndTime |-> 0,
          ResourceGroup |-> << >>, Resolution |-> << >>]

\* mutant of TakesErrorBranch: a throttling error is not reported
TakesErrorBranchUnlessThrottled(e) ==
    ~e.isNil /\ ~Contains(e.text, << "TooManyRequests" >>)

\* if err != nil { log.Printf(...) } else { for _, item := range resp.Items ... }
TakesErrorBranch(e) == ~e.isNil

\* mutant of SkipsItem: the check is missing
SkipsNoItem(item) == FALSE

\* mutant of SkipsItem: a series without a non-empty dimension is skipped too
SkipsItemWithoutDims(item) ==
    \/ Len(item.AggregatedDatapoints) = 0
    \/ \A k \in DOMAIN item.Dimensions : item.Dimensions[k] = ""

\* len(item.AggregatedDatapoints) == 0 { continue }
SkipsItem(item) == Len(item.AggregatedDatapoints) = 0

\* mutant of AfterSkip: break instead of continue
AfterSkipBreak(i, n) == n + 1

\* the index the items loop goes to after a skipped item (continue)
AfterSkip(i, n) == i + 1

\* the index len(item.AggregatedDatapoints)-1 is out of range: the goroutine panics
IndexPanics(item) == Len(item.AggregatedDatapoints) = 0

\* mutant of Latest: the first datapoint
LatestIsFirst(item) == item.AggregatedDatapoints[1]

\* item.AggregatedDatapoints[len(item.AggregatedDatapoints)-1]
Latest(item) == item.AggregatedDatapoints[Len(item.AggregatedDatapoints)]

\* item.Dimensions[k], "" when the key is absent
DimGet(d, k) == IF k \in DOMAIN d THEN d[k] ELSE ""

\* mutant of DimChoices: no preference for resourceId
DimChoicesAnyKey(d) ==
    LET nonEmpty == { k \in DOMAIN d : d[k] # "" }
    IN  IF nonEmpty = {} THEN { << "resourceId", "" >> }
        ELSE { << k, d[k] >> : k \in nonEmpty }

\* mutant of DimChoices: the fallback sets dimKey and leaves dimVal
DimChoicesKeyOnly(d) ==
    IF DimGet(d, "resourceId") # "" THEN { << "resourceId", d["resourceId"] >> }
    ELSE LET nonEmpty == { k \in DOMAIN d : d[k] # "" }
         IN  IF nonEmpty = {} THEN { << "resourceId", "" >> }
             ELSE { << k, "" >> : k \in nonEmpty }

\* the (dimKey, dimVal) the code may end with: resourceId when non-empty, else
\* the first non-empty pair of the map's (unordered) iteration, else ("resourceId", "")
DimChoices(d) ==
    IF DimGet(d, "resourceId") # "" THEN { << "resourceId", d["resourceId"] >> }
    ELSE LET nonEmpty == { k \in DOMAIN d : d[k] # "" }
         IN  IF nonEmpty = {} THEN { << "resourceId", "" >> }
             ELSE { << k, d[k] >> : k \in nonEmpty }

\* metricLabel := ""; if item.Name != nil { metricLabel = *item.Name }
MetricLabel(item) == IF Len(item.Name) > 0 THEN item.Name[1] ELSE ""

\* the prometheus.Labels of the written sample
Labels(t, ns, item, kv) ==
    [tenancy         |-> t.Name,
     region          |-> t.Region,
     namespace       |-> ns.Namespace,
     metric          |-> MetricLabel(item),
     dimension_key   |-> kv[1],
     dimension_value |-> kv[2]]

\* the zero Gauge value: no label set
NoChild == [tenancy |-> "", region |-> "", namespace |-> "", metric |-> "",
            dimension_key |-> "", dimension_value |-> ""]

\* gauge.With(labels): the child of the label set, created holding 0 when the
\* vector does not have it yet
GaugeWith(g, l) ==
    IF l \in DOMAIN g THEN g
    ELSE [x \in DOMAIN g \cup {l} |-> IF x = l THEN 0 ELSE g[x]]

\* mutant of GaugeSet: the vector is reset before the write
GaugeSetFresh(g, l, v) == [x \in {l} |-> v]

\* mutant of GaugeSet: a label set that holds a sample keeps it
GaugeSetIfUnset(g, l, v) ==
    [x \in DOMAIN g \cup {l} |->
        IF x = l /\ (l \notin DOMAIN g \/ g[l] = 0) THEN v ELSE g[x]]

\* gauge.With(labels).Set(v)
GaugeSet(g, l, v) == [x \in DOMAIN g \cup {l} |-> IF x = l THEN v ELSE g[x]]

\* mutant of GaugeOnError: the error branch resets the GaugeVec
GaugeResetOnError(g) == << >>

\* the gauge after the error branch of a pair (nothing is written)
GaugeOnError(g) == g

\* mutant of NextNamespace: a failed pair is tried again
NextNamespaceRetry(n, e) == IF e.isNil THEN n + 1 ELSE n

\* mutant of NextNamespace: an error leaves the namespace loop (break)
NextNamespaceBreak(n, e) == IF e.isNil THEN n + 1 ELSE Len(cfg.Metrics) + 1

\* the namespace index after a pair whose call ended with e (the loop goes on)
NextNamespace(n, e) == n + 1

\* mutant of PaceAfter: the pacing sleep sits in the success branch only
PaceOnSuccessOnly(e) == IF e.isNil THEN PaceMs ELSE 0

\* the sleep that ends a pair whose call ended with e: 100ms on both branches
PaceAfter(e) == PaceMs

\* mutant of SetRegion: the region is that of the first tenant
SetRegionOfFirst(t) == cfg.Tenancies[1].Region

\* the region of the client after client.SetRegion(t.Region)
SetRegion(t) == t.Region

\* mutant of AfterSweep: the loop starts the next sweep at once
AfterSweepNoSleep == "main_loop"

\* where the goroutine is when collectMetrics has returned: at the sleep
AfterSweep == "sweep_sleep"

NoLog == [kind |-> "none", ns |-> "", err |-> NilErr, ms |-> 0]

\* log.Printf("TooManyRequests, backing off %v", backoff)
BackoffLog(ms) == [kind |-> "backoff", ns |-> "", err |-> NilErr, ms |-> ms]

\* log.Printf("Error querying namespace %s: %v", ns.Namespace, err)
ErrorLog(ns, e) == [kind |-> "error", ns |-> ns, err |-> e, ms |-> 0]

\* no scrape has been served
NoScrape == [at |-> "", seen |-> << >>, done |-> << >>]

\* mutant of ScrapeWaits: the handler shares a lock with the sweep
ScrapeWaitsForSweep(p) == p \notin { "main_loop", "sweep_sleep" }

\* the handler waits for the goroutine at position p: never, the two share only
\* the GaugeVec, whose operations take its lock one at a time
ScrapeWaits(p) == FALSE

Tenant == cfg.Tenancies[ti]
Ns == cfg.Metrics[ni]
Slept(ms) == Min(SleepCap, sinceCall + ms)
Elapsed(ms) == Min(SleepCap, elapsed + ms)

\* the (start, end) of a request
Window(r) == << r.StartTime, r.EndTime >>

----------------------------------------------------------------------------
(* The collection goroutine *)

Init ==
    /\ cfg \in Configs
    /\ pool = SeriesPool
    /\ now = 0
    /\ pc = "start"
    /\ ti = 1
    /\ ni = 1
    /\ ii = 1
    /\ clientRegion = ""
    /\ req = NoReq
    /\ attempt = 0
    /\ resp = ZeroResp
    /\ err = NilErr
    /\ child = NoChild
    /\ gauge = << >>
    /\ lastLog = NoLog
    /\ trace = << >>
    /\ queried = {}
    /\ failed = {}
    /\ called = FALSE
    /\ sinceCall = 0
    /\ sweeps = 0
    /\ elapsed = 0
    /\ windows = {}
    /\ written = << >>
    /\ sc = "idle"
    /\ scraped = NoScrape

\* main up to the go statement: the flag, the provider, the client and the two
\* catalog files; any failure ends the process (os.Exit, log.Fatalf)
Startup ==
    /\ pc = "start"
    /\ \E o \in StartupOutcomes :
        pc' = IF o = "ok" THEN "main_loop" ELSE "exited"
    /\ UNCHANGED << cfg, pool, now, ti, ni, ii, clientRegion, req, attempt, resp, err,
                    child, gauge, lastLog, trace, queried, failed, called, sinceCall,
                    sweeps, elapsed, windows, written, sc, scraped >>

\* for { collectMetrics(client, gauge, tenants, metricsCfg) ...
StartSweep ==
    /\ pc = "main_loop"
    /\ pc' = "tenant_loop"
    /\ ti' = 1
    /\ queried' = {}
    /\ failed' = {}
    /\ UNCHANGED << cfg, pool, now, ni, ii, clientRegion, req, attempt, resp, err,
                    child, gauge, lastLog, trace, called, sinceCall, sweeps, elapsed,
                    windows, written, sc, scraped >>

\* for _, t := range tenants.Tenancies { client.SetRegion(t.Region) ...
NextTenant ==
    /\ pc = "tenant_loop"
    /\ ti <= Len(cfg.Tenancies)
    /\ clientRegion' = SetRegion(Tenant)
    /\ now' \in { t \in Instants : t >= now }
    /\ ni' = 1
    /\ elapsed' = 0
    /\ windows' = {}
    /\ pc' = "ns_loop"
    /\ UNCHANGED << cfg, pool, ti, ii, req, attempt, resp, err, child, gauge, lastLog,
                    trace, queried, failed, called, sinceCall, sweeps, written, sc,
                    scraped >>

\* the tenant loop is over: collectMetrics returns
EndSweep ==
    /\ pc = "tenant_loop"
    /\ ti > Len(cfg.Tenancies)
    /\ pc' = AfterSweep
    /\ sweeps' = Min(SweepCap, sweeps + 1)
    /\ UNCHANGED << cfg, pool, now, ti, ni, ii, clientRegion, req, attempt, resp, err,
                    child, gauge, lastLog, trace, queried, failed, called, sinceCall,
                    elapsed, windows, written, sc, scraped >>

\* time.Sleep(1 * time.Minute)
SweepSleep ==
    /\ pc = "sweep_sleep"
    /\ sinceCall' = Slept(SweepSleepMs)
    /\ pc' = "main_loop"
    /\ UNCHANGED << cfg, pool, now, ti, ni, ii, clientRegion, req, attempt, resp, err,
                    child, gauge, lastLog, trace, queried, failed, called, sweeps,
                    elapsed, windows, written, sc, scraped >>

\* the namespace loop of one tenant is over
EndTenant ==
    /\ pc = "ns_loop"
    /\ ni > Len(cfg.Metrics)
    /\ ti' = ti + 1
    /\ elapsed' = 0
    /\ pc' = "tenant_loop"
    /\ UNCHANGED << cfg, pool, now, ni, ii, clientRegion, req, attempt, resp, err,
                    child, gauge, lastLog, trace, queried, failed, called, sinceCall,
                    sweeps, windows, written, sc, scraped >>

\* if len(ns.Names) == 0 { continue }
SkipNamespace ==
    /\ pc = "ns_loop"
    /\ ni <= Len(cfg.Metrics)
    /\ SkipsNamespace(Ns)
    /\ ni' = ni + 1
    /\ UNCHANGED << cfg, pool, now, pc, ti, ii, clientRegion, req, attempt, resp, err,
                    child, gauge, lastLog, trace, queried, failed, called, sinceCall,
                    sweeps, elapsed, windows, written, sc, scraped >>

\* the request is built and summarizeWithRetry is entered
StartInvocation ==
    /\ pc = "ns_loop"
    /\ ni <= Len(cfg.Metrics)
    /\ ~SkipsNamespace(Ns)
    /\ req' = BuildRequest(Tenant, Ns)
    /\ attempt' = 0
    /\ resp' = ZeroResp
    /\ err' = NilErr
    /\ trace' = << >>
    /\ pc' = "call"
    /\ UNCHANGED << cfg, pool, now, ti, ni, ii, clientRegion, child, gauge, lastLog,
                    queried, failed, called, sinceCall, sweeps, elapsed, windows,
                    written, sc, scraped >>

\* resp, err = client.SummarizeMetricsData(context.Background(), req)
Call ==
    /\ pc = "call"
    /\ \E o \in ProviderOutcomes :
        /\ resp' = o.resp
        /\ err' = o.err
        /\ trace' = Append(trace, CallEvent(o.resp, o.err))
        /\ pc' = IF ReturnsNow(o.err) THEN "returned" ELSE "backoff"
    /\ queried' = queried \cup { << ti, ni >> }
    /\ called' = TRUE
    /\ sinceCall' = 0
    /\ windows' = windows \cup { Window(req) }
    /\ UNCHANGED << cfg, pool, now, ti, ni, ii, clientRegion, req, attempt, child,
                    gauge, lastLog, failed, sweeps, elapsed, written, sc, scraped >>

\* log.Printf; time.Sleep(backoff); attempt++
BackoffSleep ==
    /\ pc = "backoff"
    /\ lastLog' = BackoffLog(Backoff(attempt))
    /\ trace' = Append(trace, SleepEvent(Backoff(attempt)))
    /\ sinceCall' = Slept(Backoff(attempt))
    /\ elapsed' = Elapsed(Backoff(attempt))
    /\ attempt' = attempt + 1
    /\ pc' = IF LoopsAgain(attempt + 1) THEN "call" ELSE "returned"
    /\ UNCHANGED << cfg, pool, now, ti, ni, ii, clientRegion, req, resp, err, child,
                    gauge, queried, failed, called, sweeps, windows, written, sc,
                    scraped >>

\* if err != nil { log.Printf("Error querying namespace ...") }
HandleError ==
    /\ pc = "returned"
    /\ TakesErrorBranch(err)
    /\ lastLog' = ErrorLog(Ns.Namespace, err)
    /\ gauge' = GaugeOnError(gauge)
    /\ written' = GaugeOnError(written)
    /\ failed' = failed \cup { << ti, ni >> }
    /\ pc' = "pace"
    /\ UNCHANGED << cfg, pool, now, ti, ni, ii, clientRegion, req, attempt, resp, err,
                    child, trace, queried, called, sinceCall, sweeps, elapsed, windows,
                    sc, scraped >>

\* else { for _, item := range resp.Items {
HandleResponse ==
    /\ pc = "returned"
    /\ ~TakesErrorBranch(err)
    /\ ii' = 1
    /\ pc' = "items"
    /\ UNCHANGED << cfg, pool, now, ti, ni, clientRegion, req, attempt, resp, err,
                    child, gauge, lastLog, trace, queried, failed, called, sinceCall,
                    sweeps, elapsed, windows, written, sc, scraped >>

\* if len(item.AggregatedDatapoints) == 0 { continue }
SkipItem ==
    /\ pc = "items"
    /\ ii <= Len(resp.Items)
    /\ SkipsItem(resp.Items[ii])
    /\ ii' = AfterSkip(ii, Len(resp.Items))
    /\ UNCHANGED << cfg, pool, now, pc, ti, ni, clientRegion, req, attempt, resp, err,
                    child, gauge, lastLog, trace, queried, failed, called, sinceCall,
                    sweeps, elapsed, windows, written, sc, scraped >>

\* latest, dimKey, dimVal, metricLabel, then gauge.With(prometheus.Labels{...})
WithItem ==
    /\ pc = "items"
    /\ ii <= Len(resp.Items)
    /\ ~SkipsItem(resp.Items[ii])
    /\ IF IndexPanics(resp.Items[ii])
       THEN /\ pc' = "crashed"
            /\ UNCHANGED << child, gauge >>
       ELSE /\ \E kv \in DimChoices(resp.Items[ii].Dimensions) :
                child' = Labels(Tenant, Ns, resp.Items[ii], kv)
            /\ gauge' = GaugeWith(gauge, child')
            /\ pc' = "set"
    /\ UNCHANGED << cfg, pool, now, ti, ni, ii, clientRegion, req, attempt, resp, err,
                    lastLog, trace, queried, failed, called, sinceCall, sweeps,
                    elapsed, windows, written, sc, scraped >>

\* .Set(*latest.Value) on the child, then the next item
SetItem ==
    /\ pc = "set"
    /\ gauge' = GaugeSet(gauge, child, Latest(resp.Items[ii]))
    /\ written' = GaugeSet(written, child, Latest(resp.Items[ii]))
    /\ child' = NoChild
    /\ ii' = ii + 1
    /\ pc' = "items"
    /\ UNCHANGED << cfg, pool, now, ti, ni, clientRegion, req, attempt, resp, err,
                    lastLog, trace, queried, failed, called, sinceCall, sweeps,
                    elapsed, windows, sc, scraped >>

\* the loop over resp.Items is over
EndItems ==
    /\ pc = "items"
    /\ ii > Len(resp.Items)
    /\ pc' = "pace"
    /\ UNCHANGED << cfg, pool, now, ti, ni, ii, clientRegion, req, attempt, resp, err,
                    child, gauge, lastLog, trace, queried, failed, called, sinceCall,
                    sweeps, elapsed, windows, written, sc, scraped >>

\* time.Sleep(100 * time.Millisecond), then the next namespace
Pace ==
    /\ pc = "pace"
    /\ sinceCall' = Slept(PaceAfter(err))
    /\ elapsed' = Elapsed(PaceAfter(err))
    /\ ni' = NextNamespace(ni, err)
    /\ pc' = "ns_loop"
    /\ UNCHANGED << cfg, pool, now, ti, ii, clientRegion, req, attempt, resp, err,
                    child, gauge, lastLog, trace, queried, failed, called, sweeps,
                    windows, written, sc, scraped >>

Next ==
    \/ Startup
    \/ StartSweep
    \/ NextTenant
    \/ EndSweep
    \/ SweepSleep
    \/ EndTenant
    \/ SkipNamespace
    \/ StartInvocation
    \/ Call
    \/ BackoffSleep
    \/ HandleError
    \/ HandleResponse
    \/ SkipItem
    \/ WithItem
    \/ SetItem
    \/ EndItems
    \/ Pace

Spec == Init /\ [][Next]_vars

\* the same program, with one configured pair and a provider that holds the
\* series of MappingPool
InitLocals ==
    /\ now = 0
    /\ pc = "start"
    /\ ti = 1
    /\ ni = 1
    /\ ii = 1
    /\ clientRegion = ""
    /\ req = NoReq
    /\ attempt = 0
    /\ resp = ZeroResp
    /\ err = NilErr
    /\ child = NoChild
    /\ gauge = << >>
    /\ lastLog = NoLog
    /\ trace = << >>
    /\ queried = {}
    /\ failed = {}
    /\ called = FALSE
    /\ sinceCall = 0
    /\ sweeps = 0
    /\ elapsed = 0
    /\ windows = {}
    /\ written = << >>
    /\ sc = "idle"
    /\ scraped = NoScrape

InitMapping ==
    /\ cfg = CfgMapping
    /\ pool = MappingPool
    /\ InitLocals

SpecMapping == InitMapping /\ [][Next]_vars

\* the goroutine is scheduled, every sleep ends and every provider call returns
InitLive ==
    /\ cfg = CfgTwoTenants
    /\ pool = { SeriesA, SeriesB }
    /\ InitLocals

SpecLive == InitLive /\ [][Next]_vars /\ WF_vars(Next)

----------------------------------------------------------------------------
(* The /metrics handler *)

\* http.ListenAndServe is running: main has passed the go statement and the
\* process has not ended
Listening == pc \notin { "start", "exited", "crashed" }

\* a scrape request arrives
ScrapeBegin ==
    /\ Listening
    /\ sc = "idle"
    /\ sc' = "serving"
    /\ UNCHANGED << cfg, pool, now, pc, ti, ni, ii, clientRegion, req, attempt, resp,
                    err, child, gauge, lastLog, trace, queried, failed, called,
                    sinceCall, sweeps, elapsed, windows, written, scraped >>

\* the handler gathers the registry, reading each child's value by one atomic
\* load, and answers
ScrapeServe ==
    /\ Listening
    /\ sc = "serving"
    /\ ~ScrapeWaits(pc)
    /\ scraped' = [at |-> pc, seen |-> gauge, done |-> written]
    /\ sc' = "idle"
    /\ UNCHANGED << cfg, pool, now, pc, ti, ni, ii, clientRegion, req, attempt, resp,
                    err, child, gauge, lastLog, trace, queried, failed, called,
                    sinceCall, sweeps, elapsed, windows, written >>

\* the goroutine and the handler, interleaved
NextServed ==
    \/ Next
    \/ ScrapeBegin
    \/ ScrapeServe

InitServed ==
    /\ cfg = CfgMapping
    /\ pool = { SeriesA, SeriesB }
    /\ InitLocals

SpecServed == InitServed /\ [][NextServed]_vars

----------------------------------------------------------------------------
(* Vocabulary of the properties *)

IsCall(e) == e.ev = "call"
IsSleep(e) == e.ev = "sleep"
RateLimitErrors == { ErrTooMany1, ErrTooMany2 }
RateLimitedCall(e) == IsCall(e) /\ e.err \in RateLimitErrors
OkCall(e) == IsCall(e) /\ e.err = NilErr
OtherErrorCall(e) == IsCall(e) /\ e.err # NilErr /\ e.err \notin RateLimitErrors

CallIdx == { p \in 1..Len(trace) : IsCall(trace[p]) }
SleepIdx == { p \in 1..Len(trace) : IsSleep(trace[p]) }
NumCalls == Cardinality(CallIdx)
NumSleeps == Cardinality(SleepIdx)
CallsBefore(p) == Cardinality({ q \in CallIdx : q < p })
SleepsBefore(p) == Cardinality({ q \in SleepIdx : q < p })

\* summarizeWithRetry is not running and has run for the current pair
Returned == pc \notin { "call", "backoff" } /\ trace # << >>

\* all three attempts of the invocation were rate-limited and it has returned
Exhausted ==
    /\ Returned
    /\ NumCalls = 3
    /\ \A p \in CallIdx : RateLimitedCall(trace[p])

\* the pairs of the configuration with a non-empty name list
QueryablePairs ==
    { << t, n >> \in (1..Len(cfg.Tenancies)) \X (1..Len(cfg.Metrics)) :
        Len(cfg.Metrics[n].Names) > 0 }

InPair == pc \in { "ns_loop", "call", "backoff", "returned", "items", "set", "pace" }

----------------------------------------------------------------------------
(* summarizeWithRetry: attempts and backoff *)

\* C1: one invocation of summarizeWithRetry makes at most 3 provider calls,
\* and every call after the first directly follows a call that failed with a
\* rate-limit (TooManyRequests) error.
C1_AtMostThreeCalls ==
    /\ NumCalls <= 3
    /\ \A p \in CallIdx :
        CallsBefore(p) >= 1 =>
            \E q \in CallIdx :
                /\ q < p
                /\ \A r \in CallIdx : r < p => r <= q
                /\ RateLimitedCall(trace[q])

C1_Witness ==
    /\ pc = "returned"
    /\ NumCalls = 3
    /\ OkCall(trace[Len(trace)])

\* C2: the sleep between attempt i and attempt i+1 (from 0) is 2^i seconds, a
\* backoff sleep follows every attempt that failed with a rate-limit error,
\* and no sleep follows a success or another error.
C2_BackoffIffRateLimited ==
    \A p \in 1..Len(trace) :
        /\ IsSleep(trace[p]) => p > 1 /\ RateLimitedCall(trace[p - 1])
        /\ RateLimitedCall(trace[p]) =>
            IF p = Len(trace) THEN pc = "backoff" ELSE IsSleep(trace[p + 1])
        /\ (IsSleep(trace[p]) /\ p < Len(trace) /\ IsCall(trace[p + 1])) =>
            trace[p].ms = (2 ^ (CallsBefore(p) - 1)) * 1000
        /\ (OkCall(trace[p]) \/ OtherErrorCall(trace[p])) => p = Len(trace)

C2_Witness ==
    /\ Len(trace) >= 5
    /\ IsSleep(trace[2]) /\ trace[2].ms = 1000
    /\ IsSleep(trace[4]) /\ trace[4].ms = 2000
    /\ IsCall(trace[5])

\* C3: when the provider answers the first k attempts (k = 0, 1, 2) with a
\* rate-limit error and the next with a success, summarizeWithRetry returns
\* that response with a nil error after k+1 calls and k backoff sleeps, of 1s
\* and then 2s.
C3_SuccessAfterRetries ==
    \A p \in 1..Len(trace) :
        (OkCall(trace[p]) /\ \A q \in CallIdx : q < p => RateLimitedCall(trace[q])) =>
            LET k == CallsBefore(p)
            IN  /\ k \in 0..2
                /\ p = Len(trace)
                /\ pc \notin { "call", "backoff" }
                /\ resp = trace[p].resp
                /\ err = NilErr
                /\ NumCalls = k + 1
                /\ NumSleeps = k
                /\ \A q \in SleepIdx :
                    trace[q].ms = << 1000, 2000 >>[SleepsBefore(q) + 1]

C3_Witness ==
    /\ pc = "returned"
    /\ Len(trace) = 5
    /\ RateLimitedCall(trace[1]) /\ RateLimitedCall(trace[3])
    /\ OkCall(trace[5])
    /\ resp.Items = << SeriesA, SeriesB >>

\* C4: an attempt that fails with an error other than a rate-limit error ends
\* the invocation: that error is returned, with no further call and no sleep,
\* whichever attempt it occurs on.
C4_OtherErrorReturnsAtOnce ==
    \A p \in 1..Len(trace) :
        OtherErrorCall(trace[p]) =>
            /\ p = Len(trace)
            /\ pc \notin { "call", "backoff" }
            /\ err = trace[p].err

C4_Witness ==
    /\ pc = "returned"
    /\ Len(trace) = 5
    /\ OtherErrorCall(trace[5])
    /\ err = ErrInternal

\* C5: when all 3 attempts are rate-limited, summarizeWithRetry returns the
\* error of the third attempt, and collectMetrics logs it, writes nothing to
\* the registry for the pair and goes on to the next namespace.
C5_ExhaustedStep ==
    /\ (pc = "returned" /\ Exhausted) =>
        /\ ~err.isNil
        /\ \E p \in CallIdx : CallsBefore(p) = 2 /\ err = trace[p].err
        /\ lastLog' = [kind |-> "error", ns |-> Ns.Namespace, err |-> err, ms |-> 0]
        /\ gauge' = gauge
        /\ pc' = "pace"
    /\ (pc = "pace" /\ Exhausted) =>
        /\ gauge' = gauge
        /\ pc' = "ns_loop"
        /\ ti' = ti
        /\ ni' = ni + 1

C5_ExhaustedRetries == [][C5_ExhaustedStep]_vars

C5_Witness ==
    /\ pc = "ns_loop"
    /\ Exhausted
    /\ trace[1].err = ErrTooMany1
    /\ err = ErrTooMany2
    /\ lastLog.kind = "error" /\ lastLog.err = ErrTooMany2

\* C6: every backoff sleep lies between two attempts of the invocation, so an
\* invocation that has made k attempts and returned has slept k-1 times.
C6_SleepsOnlyBetweenAttempts ==
    /\ \A p \in SleepIdx :
        /\ p > 1 /\ IsCall(trace[p - 1])
        /\ IF p = Len(trace) THEN pc = "call" ELSE IsCall(trace[p + 1])
    /\ Returned => NumSleeps = NumCalls - 1

----------------------------------------------------------------------------
(* collectMetrics: the sweep *)

\* C7: whatever pairs fail, every configured pair with a non-empty name list
\* is queried in the sweep: inside a sweep every such pair before the current
\* one has been called, and at the end of the sweep all of them have.
C7_EveryPairQueried ==
    /\ pc = "sweep_sleep" => queried = QueryablePairs
    /\ pc = "tenant_loop" =>
        \A pr \in QueryablePairs : pr[1] < ti => pr \in queried
    /\ InPair =>
        \A pr \in QueryablePairs :
            (pr[1] < ti \/ (pr[1] = ti /\ pr[2] < ni)) => pr \in queried
    /\ failed \subseteq queried

C7_Witness ==
    /\ pc = "sweep_sleep"
    /\ cfg = CfgTwoTenants
    /\ failed = { << 1, 2 >> }
    /\ queried = { << 1, 2 >>, << 2, 2 >> }

\* C8: while a pair whose call ends in an error is processed, no step changes
\* the registry: the calls and sleeps of the invocation, the error branch and
\* the pacing sleep leave every label set as it was.
C8_ErrorStep ==
    (pc \in { "call", "backoff" } \/ (pc \in { "returned", "pace" } /\ ~err.isNil))
        => gauge' = gauge

C8_ErrorLeavesRegistry == [][C8_ErrorStep]_vars

C8_Witness ==
    /\ pc = "pace"
    /\ ~err.isNil
    /\ \E l \in DOMAIN gauge :
        l.tenancy = Tenant.Name /\ l.namespace = Ns.Namespace /\ gauge[l] = 20

\* C9: when a provider call is about to be made and an earlier call exists,
\* at least 100ms of sleep have elapsed since that earlier call.
C9_MinimumSpacing == (pc = "call" /\ called) => sinceCall >= 100

C9_Witness ==
    /\ pc = "call"
    /\ called
    /\ attempt = 0
    /\ ti = 2
    /\ << 1, 2 >> \in failed
    /\ sinceCall = 100

\* C10: a series without datapoints writes nothing and raises no error, the
\* series after it are still processed, and from an empty registry the
\* response (A = [10, 20], B = []) leaves exactly one entry, A with 20.
C10_SkipStep ==
    (/\ pc = "items"
     /\ ii <= Len(resp.Items)
     /\ Len(resp.Items[ii].AggregatedDatapoints) = 0) =>
        /\ gauge' = gauge
        /\ pc' = "items"
        /\ ii' = ii + 1
        /\ err' = NilErr
        /\ lastLog' = lastLog
        /\ failed' = failed

C10_RestProcessed ==
    (pc = "pace" /\ err = NilErr) =>
        \A i \in 1..Len(resp.Items) :
            Len(resp.Items[i].AggregatedDatapoints) > 0 =>
                \E l \in DOMAIN gauge :
                    /\ l.tenancy = Tenant.Name
                    /\ l.namespace = Ns.Namespace
                    /\ l.metric = resp.Items[i].Name[1]

ScenarioLabel ==
    [tenancy |-> Tenant.Name, region |-> Tenant.Region, namespace |-> Ns.Namespace,
     metric |-> "A", dimension_key |-> "resourceId", dimension_value |-> "r1"]

C10_Scenario ==
    (/\ pc = "pace"
     /\ sweeps = 0
     /\ queried = { << ti, ni >> }
     /\ resp.Items = << SeriesA, SeriesB >>) =>
        /\ DOMAIN gauge = { ScenarioLabel }
        /\ gauge[ScenarioLabel] = 20

C10_EmptySeriesSkipped ==
    /\ [](C10_RestProcessed /\ C10_Scenario)
    /\ [][C10_SkipStep]_vars

C10_Witness ==
    /\ pc = "pace"
    /\ sweeps = 0
    /\ queried = { << ti, ni >> }
    /\ resp.Items = << SeriesA, SeriesB >>
    /\ DOMAIN gauge = { ScenarioLabel }

----------------------------------------------------------------------------
(* collectMetrics: from a series to a sample *)

\* the items loop is at a series with at least one datapoint, about to set the
\* value of the series' label set
Writing ==
    /\ pc = "set"
    /\ ii <= Len(resp.Items)
    /\ Len(resp.Items[ii].AggregatedDatapoints) > 0

LastValue ==
    resp.Items[ii].AggregatedDatapoints[Len(resp.Items[ii].AggregatedDatapoints)]

\* the step sets label set l to v and changes no other label set
Wrote(l, v) ==
    /\ l = child
    /\ DOMAIN gauge' = DOMAIN gauge \cup {l}
    /\ gauge'[l] = v
    /\ \A x \in DOMAIN gauge : x # l => gauge'[x] = gauge[x]
    /\ l.tenancy = Tenant.Name
    /\ l.region = Tenant.Region
    /\ l.namespace = Ns.Namespace

\* C11: for a series with at least one datapoint the value written to its
\* label set is the last element of the datapoint sequence.
C11_Step == Writing => \E l \in DOMAIN gauge' : Wrote(l, LastValue)

C11_LastDatapointWritten == [][C11_Step]_vars

C11_Witness ==
    /\ sweeps = 0
    /\ pc = "items"
    /\ ii = 2
    /\ resp.Items[1] = SeriesFull
    /\ \E l \in DOMAIN gauge : l.metric = "A" /\ gauge[l] = 20

\* C12: a series whose dimensions hold a non-empty resourceId is written with
\* dimension_key "resourceId" and that value, whatever else the map holds.
C12_Step ==
    (/\ Writing
     /\ "resourceId" \in DOMAIN resp.Items[ii].Dimensions
     /\ resp.Items[ii].Dimensions["resourceId"] # "") =>
        \E l \in DOMAIN gauge' :
            /\ Wrote(l, LastValue)
            /\ l.dimension_key = "resourceId"
            /\ l.dimension_value = resp.Items[ii].Dimensions["resourceId"]

C12_ResourceIdPreferred == [][C12_Step]_vars

C12_Witness ==
    /\ sweeps = 0
    /\ pc = "items"
    /\ ii = 2
    /\ resp.Items[1] = SeriesFull
    /\ \A l \in DOMAIN gauge : l.dimension_key = "resourceId" /\ l.dimension_value = "r1"
    /\ DOMAIN gauge # {}

\* C13: a series without a non-empty resourceId but with another non-empty
\* dimension is written with a key of its map whose value is non-empty, and
\* with that key's value.
C13_Step ==
    LET d == resp.Items[ii].Dimensions
    IN  (/\ Writing
         /\ ("resourceId" \notin DOMAIN d \/ d["resourceId"] = "")
         /\ \E k \in DOMAIN d : d[k] # "") =>
            \E l \in DOMAIN gauge' :
                /\ Wrote(l, LastValue)
                /\ l.dimension_key \in DOMAIN d
                /\ d[l.dimension_key] # ""
                /\ l.dimension_value = d[l.dimension_key]

C13_FallbackPairBelongsTogether == [][C13_Step]_vars

C13_Witness ==
    /\ sweeps = 0
    /\ pc = "items"
    /\ ii = 2
    /\ resp.Items[1] = SeriesNoName
    /\ \E l \in DOMAIN gauge : l.dimension_key = "az" /\ l.dimension_value = "a1"

\* C14: the metric label of a written sample is the series' name when the
\* provider reports one, and a requested metric name of the namespace when it
\* does not.
C14_Step ==
    Writing =>
        \E l \in DOMAIN gauge' :
            /\ Wrote(l, LastValue)
            /\ IF Len(resp.Items[ii].Name) > 0
               THEN l.metric = resp.Items[ii].Name[1]
               ELSE \E k \in 1..Len(Ns.Names) : l.metric = Ns.Names[k]

C14_MetricLabelFallsBack == [][C14_Step]_vars

\* C15: for a namespace with n >= 1 names the query text is non-empty and is
\* n terms joined by commas, the k-th being "<k-th name>[1m].mean()", a
\* repeated name giving a term each time.
C15_QueryHasOneTermPerName ==
    pc \in { "call", "backoff", "returned", "items", "set", "pace" } =>
        LET names == Ns.Names
            n == Len(names)
            q == req.Query
        IN  /\ n >= 1
            /\ q # << >>
            /\ Len(q) = 3 * n - 1
            /\ \A k \in 1..n :
                /\ q[3 * k - 2] = names[k]
                /\ q[3 * k - 1] = "[1m].mean()"
                /\ k < n => q[3 * k] = ","

C15_Witness ==
    /\ pc = "call"
    /\ Ns.Names = << "A", "B", "A" >>
    /\ req.Query = << "A", "[1m].mean()", ",", "B", "[1m].mean()", ",",
                      "A", "[1m].mean()" >>

\* C16: a namespace with an empty name list is skipped: no call is made for
\* it, nothing is written, and the loop goes to the next namespace of the
\* same tenant.
C16_SkipStep ==
    (/\ pc = "ns_loop"
     /\ ni <= Len(cfg.Metrics)
     /\ Len(cfg.Metrics[ni].Names) = 0) =>
        /\ pc' = "ns_loop"
        /\ ni' = ni + 1
        /\ ti' = ti
        /\ gauge' = gauge
        /\ queried' = queried
        /\ trace' = trace
        /\ sinceCall' = sinceCall

C16_NeverQueried ==
    \A pr \in queried : Len(cfg.Metrics[pr[2]].Names) > 0

C16_EmptyNamespaceSkipped == []C16_NeverQueried /\ [][C16_SkipStep]_vars

C16_Witness ==
    /\ pc = "call"
    /\ cfg = CfgOneTenant
    /\ ni = 3
    /\ queried = { << 1, 1 >> }

\* C17: the time window of every request is longer than the 1-minute
\* sampling interval of its query.
C17_WindowExceedsInterval ==
    pc = "call" => req.EndTime - req.StartTime > SamplingIntervalMs

----------------------------------------------------------------------------
(* The scheduler *)

Sweeping == pc \in { "tenant_loop", "ns_loop", "call", "backoff", "returned",
                     "items", "set", "pace" }
Idle == pc \in { "main_loop", "sweep_sleep" }

C19_Alive ==
    /\ pc # "crashed"
    /\ pc \in { "start", "exited" } \/ Sweeping \/ Idle
    /\ (Sweeping \/ Idle) => ENABLED Next

C19_ExitStep == (pc' = "exited" /\ pc # "exited") => pc = "start"

C20_Step ==
    \A l \in DOMAIN gauge :
        /\ l \in DOMAIN gauge'
        /\ gauge'[l] # gauge[l] =>
            /\ Writing
            /\ gauge'[l] = LastValue
            /\ l.tenancy = Tenant.Name
            /\ l.namespace = Ns.Namespace

C20_NeverRemoved == [][C20_Step]_vars

C20_Witness ==
    /\ sweeps = 1
    /\ pc = "pace"
    /\ err = NilErr
    /\ resp.Items = << >>
    /\ \E l \in DOMAIN gauge :
        l.tenancy = Tenant.Name /\ l.namespace = Ns.Namespace /\ gauge[l] = 30

----------------------------------------------------------------------------
(* Scrapes that run while the goroutine sweeps *)

\* C21: a scrape running beside a sweep sees each label set with the value
\* that a whole sample write left in it (the one before or the one after a
\* write under way), never an entry that a write has only begun; a sample
\* write is one atomic step on one label set.
C21_ScrapeSeesWholeWrites == scraped.seen = scraped.done

----------------------------------------------------------------------------
(* One sweep at a time *)

\* C23: a sweep starts only at the head of the loop, the head is reached only
\* from startup or from the one-minute sleep that follows a completed sweep,
\* and a sweep ends only when every tenant is done; every provider call and
\* every registry write is a step of that one sweep.
C23_Step ==
    /\ (Sweeping' /\ ~Sweeping) =>
        /\ pc = "main_loop"
        /\ pc' = "tenant_loop"
        /\ ti' = 1
    /\ (pc' = "main_loop" /\ pc # "main_loop") =>
        \/ pc = "start"
        \/ /\ pc = "sweep_sleep"
           /\ sinceCall' = Min(SleepCap, sinceCall + 60000)
    /\ (Sweeping /\ ~Sweeping') =>
        /\ pc = "tenant_loop"
        /\ ti > Len(cfg.Tenancies)
        /\ pc' = "sweep_sleep"
    /\ (Len(trace') > Len(trace) /\ IsCall(trace'[Len(trace')])) => pc = "call"
    /\ gauge' # gauge => pc \in { "items", "set" }

C23_SweepsNeverOverlap == [][C23_Step]_vars

C23_Witness ==
    /\ sweeps = 1
    /\ pc = "tenant_loop"
    /\ ti = 1
    /\ cfg = CfgTwoTenants
    /\ called
    /\ sinceCall >= 200

\* C24: in a sweep each pair is invoked at most once, an invocation makes one
\* call when none of its calls is rate-limited and at most 3 otherwise, and at
\* the end of the sweep the pairs called are exactly the pairs with a
\* non-empty name list, however many names they list.
C24_Inv ==
    /\ NumCalls <= 3
    /\ (\A p \in CallIdx : ~RateLimitedCall(trace[p])) => NumCalls <= 1
    /\ pc \in { "returned", "items", "set", "pace" } => NumCalls >= 1
    /\ pc = "sweep_sleep" => queried = QueryablePairs

C24_Step ==
    /\ (pc = "ns_loop" /\ pc' = "call") =>
        /\ << ti, ni >> \notin queried
        /\ Len(cfg.Metrics[ni].Names) > 0
        /\ trace' = << >>
    /\ (Len(trace') > Len(trace) /\ IsCall(trace'[Len(trace')])) =>
        /\ queried' = queried \cup { << ti, ni >> }
        /\ req' = req
        /\ req.Namespace = cfg.Metrics[ni].Namespace
    /\ queried' \subseteq queried \cup { << ti, ni >> }

C24_OneCallPerPair == []C24_Inv /\ [][C24_Step]_vars

C24_Witness ==
    /\ pc = "sweep_sleep"
    /\ cfg = CfgOneTenant
    /\ queried = { << 1, 1 >>, << 1, 3 >> }
    /\ failed = {}
    /\ NumCalls = 1

\* C25: a request about to be sent for tenant t carries t's compartment id
\* with the subtree flag true, and the client's region is t's region.
C25_RequestScopedToTenant ==
    pc = "call" =>
        /\ req.CompartmentId = cfg.Tenancies[ti].CompartmentID
        /\ req.CompartmentIdInSubtree = TRUE
        /\ clientRegion = cfg.Tenancies[ti].Region

C25_Witness ==
    /\ sweeps = 1
    /\ pc = "call"
    /\ cfg = CfgTwoTenants
    /\ ti = 1
    /\ << 2, 2 >> \notin queried
    /\ clientRegion = "us-ashburn-1"
    /\ req.CompartmentId = "ocid1.compartment.1"

\* C26: every request of one tenant's iteration, retries included, carries
\* the one window computed from the clock read when the iteration began; the
\* clock is read again only when a tenant's iteration begins, so a request
\* can be sent with an end time that the sleeps of the iteration have left
\* behind.
C26_Inv ==
    /\ Cardinality(windows) <= 1
    /\ pc \in { "call", "backoff" } =>
        /\ req.EndTime = now
        /\ req.StartTime = now - 60000
        /\ windows \subseteq { << req.StartTime, req.EndTime >> }

C26_Step ==
    /\ now' # now => pc = "tenant_loop"
    /\ (pc = "tenant_loop" /\ pc' = "ns_loop") =>
        /\ now' \in Instants
        /\ windows' = {}
        /\ elapsed' = 0
    /\ elapsed' > elapsed => pc \in { "backoff", "pace" }

C26_WindowFixedPerTenant == []C26_Inv /\ [][C26_Step]_vars

C26_Witness ==
    /\ cfg = CfgOneTenant
    /\ pc = "call"
    /\ ni = 3
    /\ attempt = 1
    /\ elapsed >= 200
    /\ req.EndTime = now
    /\ windows = { << req.StartTime, req.EndTime >> }

----------------------------------------------------------------------------
(* One value per label set *)

\* the series has no non-empty dimension
NoDimension(item) ==
    \A k \in DOMAIN item.Dimensions : item.Dimensions[k] = ""

\* label set l is one that a sample of the series may be written to
MayMapTo(item, l) ==
    LET d == item.Dimensions
    IN  /\ l.tenancy = Tenant.Name
        /\ l.region = Tenant.Region
        /\ l.namespace = Ns.Namespace
        /\ l.metric = IF Len(item.Name) > 0 THEN item.Name[1] ELSE ""
        /\ IF "resourceId" \in DOMAIN d /\ d["resourceId"] # ""
           THEN l.dimension_key = "resourceId" /\ l.dimension_value = d["resourceId"]
           ELSE IF NoDimension(item)
           THEN l.dimension_key = "resourceId" /\ l.dimension_value = ""
           ELSE /\ l.dimension_key \in DOMAIN d
                /\ d[l.dimension_key] # ""
                /\ l.dimension_value = d[l.dimension_key]

HasData(item) == Len(item.AggregatedDatapoints) > 0

\* the response has been processed without an error
Processed == pc = "pace" /\ err = NilErr

\* C27: when a response has been processed, a label set that only series of
\* the response up to the i-th can map to, the i-th among them, holds the last
\* datapoint of the i-th; from an empty registry the entries are label sets of
\* the response's series, one each.
C27_LaterSeriesWins ==
    Processed =>
        /\ \A i \in 1..Len(resp.Items) : \A l \in DOMAIN gauge :
            (/\ HasData(resp.Items[i])
             /\ MayMapTo(resp.Items[i], l)
             /\ \A l2 \in DOMAIN gauge : MayMapTo(resp.Items[i], l2) => l2 = l
             /\ \A j \in (i + 1)..Len(resp.Items) :
                 HasData(resp.Items[j]) => ~MayMapTo(resp.Items[j], l)) =>
                gauge[l] =
                    resp.Items[i].AggregatedDatapoints[
                        Len(resp.Items[i].AggregatedDatapoints)]
        /\ sweeps = 0 =>
            /\ \A l \in DOMAIN gauge :
                \E i \in 1..Len(resp.Items) :
                    HasData(resp.Items[i]) /\ MayMapTo(resp.Items[i], l)
            /\ Cardinality(DOMAIN gauge) <=
                Cardinality({ i \in 1..Len(resp.Items) : HasData(resp.Items[i]) })

C27_Witness ==
    /\ Processed
    /\ sweeps = 0
    /\ resp.Items = << SeriesNoDims, SeriesBlank >>
    /\ Cardinality(DOMAIN gauge) = 1
    /\ \A l \in DOMAIN gauge : gauge[l] = 8

\* C28: a series with a datapoint and no non-empty dimension is not skipped:
\* its sample goes to the label set with dimension_key "resourceId" and
\* dimension_value "", with the last datapoint as value.
C28_Step ==
    /\ (/\ pc = "items"
        /\ ii <= Len(resp.Items)
        /\ HasData(resp.Items[ii])
        /\ NoDimension(resp.Items[ii])) =>
            /\ pc' = "set"
            /\ ii' = ii
            /\ child'.dimension_key = "resourceId"
            /\ child'.dimension_value = ""
    /\ (Writing /\ NoDimension(resp.Items[ii])) =>
            /\ Wrote(child, LastValue)
            /\ child.dimension_key = "resourceId"
            /\ child.dimension_value = ""

C28_NoDimensionStillWritten == [][C28_Step]_vars

C28_Witness ==
    /\ sweeps = 0
    /\ pc = "items"
    /\ ii = 2
    /\ resp.Items[1] = SeriesBlank
    /\ \E l \in DOMAIN gauge :
        /\ l.dimension_key = "resourceId"
        /\ l.dimension_value = ""
        /\ l.metric = "B"
        /\ gauge[l] = 8

----------------------------------------------------------------------------
(* What counts as a rate limit *)

\* the attempt at position p of the trace was followed by a backoff
Retried(p) == IF p = Len(trace) THEN pc = "backoff" ELSE IsSleep(trace[p + 1])

====
